---- MODULE Spec2Model ----
(***************************************************************************)
(* fjoin (src/index.js): concatenate the files matched by the positional   *)
(* arguments, minus the files ignored by .gitignore and by the custom      *)
(* ignore files, plus the files forced back in by --include.               *)
(*                                                                         *)
(* The script is one top-level async flow.  Each action below is the code  *)
(* between two awaits (or a whole loop iteration, which awaits only        *)
(* sequential file operations whose outcome the action draws with \E).     *)
(* The concurrent part is Promise.all over the custom ignore file reads:   *)
(* every read is its own action, completing in any order.                  *)
(*                                                                         *)
(* Text is abstracted as follows.  A file content is the sequence of its   *)
(* lines.  The rendered result is the sequence of the relative paths whose *)
(* block was appended.  A glob or ignore pattern matches a file name by    *)
(* the table GlobMatch.  An absolute path is <<cwd, name>>.                *)
(***************************************************************************)
EXTENDS Naturals, Sequences, FiniteSets, TLC

\* ------------------------------------------------------------------------
\* Bounds and universes
\* ------------------------------------------------------------------------

\* Largest number of candidates a run of the model expands to.
MaxFiles == 2

\* process.cwd()
Cwd == "/cwd"

\* The files of the working directory (relative names).  The third name
\* begins with a space.
FileNames == {"a.txt", "b.log", " c.tmp"}

\* gitignore / glob matching of one positive pattern against one file name.
GlobMatch(glob, name) ==
  CASE glob = "*"      -> TRUE
    [] glob = "*.log"  -> name = "b.log"
    [] glob = "a.txt"  -> name = "a.txt"
    [] glob = "b.log"  -> name = "b.log"
    [] glob = "c.tmp"  -> name = "c.tmp"
    [] glob = " c.tmp" -> name = " c.tmp"
    [] OTHER           -> FALSE

\* fast-glob: a pattern without glob magic is static.
IsStaticPattern(glob) == glob \notin {"*", "*.log"}

\* ------------------------------------------------------------------------
\* node:path
\* ------------------------------------------------------------------------

\* resolve(name): the absolute path of a name relative to the cwd.
resolve(name) == <<Cwd, name>>

\* relative(process.cwd(), absolutePath)
relative(abs) == abs[2]

\* ------------------------------------------------------------------------
\* String helpers of the ignore file parsing
\* ------------------------------------------------------------------------

\* line.trim()
trim(line) == IF line = " c.tmp" THEN "c.tmp" ELSE line

\* line.startsWith('#')
startsWithHash(line) == line \in {"# build"}

\* The code's own line filter: non-empty after trim and not a comment.
keepLine(line) == line # "" /\ ~startsWithHash(line)

RECURSIVE parsePatterns(_)
\* content.split('\n').map(trim).filter(keepLine)
parsePatterns(lines) ==
  IF lines = <<>> THEN <<>>
  ELSE LET t == trim(Head(lines))
       IN  (IF keepLine(t) THEN <<t>> ELSE <<>>) \o parsePatterns(Tail(lines))

\* ------------------------------------------------------------------------
\* The "ignore" package
\* ------------------------------------------------------------------------

\* A rule of a matcher: a pattern beginning with "!" is a negation of the
\* rest; leading white space is part of the pattern.
isNegative(line) == line \in {"!b.log"}
ruleGlob(line) == IF line = "!b.log" THEN "b.log" ELSE line

RECURSIVE ignoreAdd(_)
\* ignore().add(content): the rules of the non-blank, non-comment lines,
\* in file order.
ignoreAdd(lines) ==
  IF lines = <<>> THEN <<>>
  ELSE LET l == Head(lines)
       IN  (IF l # "" /\ ~startsWithHash(l)
              THEN <<[negative |-> isNegative(l), glob |-> ruleGlob(l)]>>
              ELSE <<>>) \o ignoreAdd(Tail(lines))

RECURSIVE ignoresFrom(_, _, _)
\* The last rule that matches the path decides; a negation un-ignores.
ignoresFrom(rules, name, ignored) ==
  IF rules = <<>> THEN ignored
  ELSE LET r == Head(rules)
       IN  ignoresFrom(Tail(rules), name,
                       IF GlobMatch(r.glob, name) THEN ~r.negative ELSE ignored)

\* ig.ignores(relPath)
ignores(rules, name) == ignoresFrom(rules, name, FALSE)

\* ------------------------------------------------------------------------
\* fast-glob
\* ------------------------------------------------------------------------

\* The files of the working directory that one pattern matches.
globFiles(glob) == {n \in FileNames : GlobMatch(glob, n)}

\* The files matched by at least one pattern of a list.
matchedFiles(patterns) ==
  UNION {globFiles(patterns[i]) : i \in DOMAIN patterns}

\* Every duplicate-free ordering of a set.
Orderings(S) ==
  {s \in [1..Cardinality(S) -> S] : \A i, j \in DOMAIN s : s[i] = s[j] => i = j}

RECURSIVE staticEntries(_, _)
\* The entries of the static patterns: one lookup per pattern, in pattern
\* order, an entry already produced being dropped (option unique).
staticEntries(patterns, seen) ==
  IF patterns = <<>> THEN <<>>
  ELSE LET g == Head(patterns)
           hit == IsStaticPattern(g) /\ g \in FileNames /\ g \notin seen
       IN  (IF hit THEN <<g>> ELSE <<>>)
             \o staticEntries(Tail(patterns), IF hit THEN seen \cup {g} ELSE seen)

toAbsolute(names) == [i \in DOMAIN names |-> resolve(names[i])]

Range(s) == {s[i] : i \in DOMAIN s}

\* fg(positionals, {dot, onlyFiles, absolute, cwd}): the possible results.
\* fast-glob puts the static patterns' task before the dynamic patterns'
\* task and yields the dynamic matches in directory reading order, which no
\* argument decides.  Each entry is yielded once: the tasks run concurrently
\* and share the index of yielded entries, so a file both tasks match is
\* kept by whichever task reaches it first (lost: the static entries the
\* dynamic task reached first).
fg(patterns) ==
  LET st     == staticEntries(patterns, {})
      dynAll == matchedFiles(SelectSeq(patterns, LAMBDA g : ~IsStaticPattern(g)))
  IN  UNION { {toAbsolute(SelectSeq(st, LAMBDA n : n \notin lost) \o o) :
                 o \in Orderings(dynAll \ (Range(st) \ lost))} :
              lost \in SUBSET (Range(st) \cap dynAll) }

\* ------------------------------------------------------------------------
\* State
\* ------------------------------------------------------------------------

VARIABLES
  argv,                \* values and positionals of parseArgs
  fsGitignore,         \* the file .gitignore: [ok, lines]
  fsIgnore,            \* the named custom ignore files: name -> [ok, lines]
  fsOutput,            \* whether a file exists at the output path at start
  outFile,             \* the file at the output path: "absent", "old", "written"
  outContent,          \* what writeFile stored there
  pc,                  \* the position of the top-level flow
  exitCode,            \* the exit code the process ends with
  gitignore,           \* [null, rules]: the matcher of line 139
  gitignorePatterns,   \* the flattened pattern list
  includeFiles,        \* set of absolute paths
  reads,               \* the promises of Promise.all: index ->
                       \* [done, at (rank of completion), ig, patterns]
  customIgnores,       \* sequence of [ig, patterns]
  allFiles,            \* the candidates
  idx,                 \* number of candidates the loop has finished
  fileKind,            \* what each finished candidate was on disk
  skippedFiles,
  skippedPatterns,     \* Map pattern -> count
  forceIncludedFiles,
  skippedDirectories,
  skippedBinaryFiles,
  result,              \* relative paths of the rendered blocks, in order
  stdout,              \* set of things written to stdout
  stderr               \* set of messages [msg, arg] written to stderr

vars == <<argv, fsGitignore, fsIgnore, fsOutput, outFile, outContent, pc, exitCode,
          gitignore, gitignorePatterns, includeFiles, reads, customIgnores,
          allFiles, idx, fileKind, skippedFiles, skippedPatterns,
          forceIncludedFiles, skippedDirectories, skippedBinaryFiles, result,
          stdout, stderr>>

fsVars == <<argv, fsGitignore, fsIgnore, fsOutput>>

ledgerVars == <<skippedFiles, skippedPatterns, forceIncludedFiles,
                skippedDirectories, skippedBinaryFiles, result, idx, fileKind>>

Msg(m, a) == [msg |-> m, arg |-> a]

File(lines) == [ok |-> TRUE, lines |-> lines]
NoFile == [ok |-> FALSE, lines |-> <<>>]

\* What a candidate can be on disk when the loop reaches it: a text file, a
\* binary file, a directory (it replaced the file after the expansion), or
\* a file whose stat, sniff or read fails.
Kinds == {"text", "binary", "dir", "error"}

\* ------------------------------------------------------------------------
\* Inputs
\* ------------------------------------------------------------------------

PositionalLists ==
  { <<>>, <<"nomatch.md">>, <<"*.log", "a.txt", "b.log">>,
    <<" c.tmp", "*.log">>, <<" c.tmp", "a.txt", "*.log">> }

IncludeLists == { <<>>, <<"*.log">>, <<"*">> }

IgnoreFileLists == { <<>>, <<"x.ign">>, <<"x.ign", "y.ign">>, <<"y.ign", "x.ign">> }

GitignoreFiles ==
  { NoFile,
    File(<<"# build", "*.log", "!b.log">>),
    File(<<"*.log", " c.tmp", "">>) }

IgnoreFiles ==
  { f \in [ {"x.ign", "y.ign"} ->
               { NoFile, File(<<"b.log">>), File(<<"!b.log", "a.txt">>),
                 File(<<"*.log">>) } ] :
      /\ f["x.ign"] \in {NoFile, File(<<"b.log">>)}
      /\ f["y.ign"] # File(<<"b.log">>) }

\* The command lines: --force only together with --output.
Argvs ==
  { a \in [ help : BOOLEAN, positionals : PositionalLists, output : BOOLEAN,
            force : BOOLEAN, noGitignore : BOOLEAN, include : IncludeLists,
            ignoreFile : IgnoreFileLists, quiet : BOOLEAN ] :
      a.force => a.output }

InitFrom(A, G, I, O) ==
  /\ argv \in {a \in A : Cardinality(matchedFiles(a.positionals)) <= MaxFiles}
  /\ fsGitignore \in G
  /\ fsIgnore \in I
  /\ fsOutput \in {o \in O : o => argv.output}
  /\ outFile = IF fsOutput THEN "old" ELSE "absent"
  /\ outContent = <<>>
  /\ pc = "start"
  /\ exitCode = 0
  /\ gitignore = [null |-> TRUE, rules |-> <<>>]
  /\ gitignorePatterns = <<>>
  /\ includeFiles = {}
  /\ reads = <<>>
  /\ customIgnores = <<>>
  /\ allFiles = <<>>
  /\ idx = 0
  /\ fileKind = [n \in {} |-> "text"]
  /\ skippedFiles = <<>>
  /\ skippedPatterns = [p \in {} |-> 0]
  /\ forceIncludedFiles = <<>>
  /\ skippedDirectories = <<>>
  /\ skippedBinaryFiles = <<>>
  /\ result = <<>>
  /\ stdout = {}
  /\ stderr = {}

\* ------------------------------------------------------------------------
\* Start-up: lines 48-173
\* ------------------------------------------------------------------------

\* Lines 48-72: help requested or no positional argument.
ShowHelp ==
  /\ pc = "start"
  /\ argv.help \/ argv.positionals = <<>>
  /\ stdout' = stdout \cup {"help"}
  /\ exitCode' = 0
  /\ pc' = "exited"
  /\ UNCHANGED <<fsVars, outFile, outContent, gitignore, gitignorePatterns,
                 includeFiles, reads, customIgnores, allFiles, ledgerVars, stderr>>

\* Line 139 with readGitignore (79-91): a missing or unreadable .gitignore
\* gives an empty matcher and leaves gitignorePatterns empty.
ReadGitignore ==
  /\ pc = "start"
  /\ ~(argv.help \/ argv.positionals = <<>>)
  /\ IF argv.noGitignore
       THEN /\ gitignore' = [null |-> TRUE, rules |-> <<>>]
            /\ UNCHANGED gitignorePatterns
       ELSE IF fsGitignore.ok
         THEN /\ gitignorePatterns' = parsePatterns(fsGitignore.lines)
              /\ gitignore' = [null |-> FALSE, rules |-> ignoreAdd(fsGitignore.lines)]
         ELSE /\ gitignore' = [null |-> FALSE, rules |-> <<>>]
              /\ UNCHANGED gitignorePatterns
  /\ pc' = "include"
  /\ UNCHANGED <<fsVars, outFile, outContent, exitCode, includeFiles, reads,
                 customIgnores, allFiles, ledgerVars, stdout, stderr>>

\* Lines 140-155: expand the --include patterns, then start one read per
\* custom ignore file.
ExpandInclude ==
  /\ pc = "include"
  /\ includeFiles' = {resolve(f) : f \in matchedFiles(argv.include)}
  /\ reads' = [i \in DOMAIN argv.ignoreFile |->
                 [done |-> FALSE, at |-> 0, ig |-> <<>>, patterns |-> <<>>]]
  /\ pc' = "readIgnore"
  /\ UNCHANGED <<fsVars, outFile, outContent, exitCode, gitignore,
                 gitignorePatterns, customIgnores, allFiles, ledgerVars,
                 stdout, stderr>>

\* The number of reads that have completed.
completed == Cardinality({j \in DOMAIN reads : reads[j].done})

\* readIgnoreFile (93-100), the read succeeds.
ReadIgnoreFileOk(i) ==
  /\ pc = "readIgnore"
  /\ i \in DOMAIN reads
  /\ ~reads[i].done
  /\ fsIgnore[argv.ignoreFile[i]].ok
  /\ LET content == fsIgnore[argv.ignoreFile[i]].lines
     IN  reads' = [reads EXCEPT ![i] =
                     [done |-> TRUE, at |-> completed + 1,
                      ig |-> ignoreAdd(content),
                      patterns |-> parsePatterns(content)]]
  /\ UNCHANGED <<fsVars, outFile, outContent, pc, exitCode, gitignore,
                 gitignorePatterns, includeFiles, customIgnores, allFiles,
                 ledgerVars, stdout, stderr>>

\* Variant of ReadIgnoreFileFail: the failure is swallowed as in
\* readGitignore and the entry is empty.
ReadIgnoreFileFail_swallow(i) ==
  /\ pc = "readIgnore"
  /\ i \in DOMAIN reads
  /\ ~reads[i].done
  /\ ~fsIgnore[argv.ignoreFile[i]].ok
  /\ reads' = [reads EXCEPT ![i] =
                  [done |-> TRUE, at |-> completed + 1, ig |-> <<>>, patterns |-> <<>>]]
  /\ UNCHANGED <<fsVars, outFile, outContent, pc, exitCode, gitignore,
                 gitignorePatterns, includeFiles, customIgnores, allFiles,
                 ledgerVars, stdout, stderr>>

\* readIgnoreFile (101-104), the read fails: message and process.exit(1).
ReadIgnoreFileFail(i) ==
  /\ pc = "readIgnore"
  /\ i \in DOMAIN reads
  /\ ~reads[i].done
  /\ ~fsIgnore[argv.ignoreFile[i]].ok
  /\ stderr' = stderr \cup {Msg("Error reading ignore file", argv.ignoreFile[i])}
  /\ exitCode' = 1
  /\ pc' = "exited"
  /\ UNCHANGED <<fsVars, outFile, outContent, gitignore, gitignorePatterns,
                 includeFiles, reads, customIgnores, allFiles, ledgerVars, stdout>>

RECURSIVE concatPatterns(_, _)
\* The patterns of the entries taken in the order of a list of indexes.
concatPatterns(entries, order) ==
  IF order = <<>> THEN <<>>
  ELSE entries[Head(order)].patterns \o concatPatterns(entries, Tail(order))

\* Variant of flattenPatterns: each read pushes its patterns when it
\* completes, so the entries come in completion order.
flattenPatterns_completionOrder(entries) ==
  concatPatterns(entries,
                 [k \in DOMAIN entries |->
                    CHOOSE i \in DOMAIN reads : reads[i].at = k])

RECURSIVE flattenPatterns(_)
\* The patterns of the entries, entry after entry.
flattenPatterns(entries) ==
  IF entries = <<>> THEN <<>>
  ELSE Head(entries).patterns \o flattenPatterns(Tail(entries))

\* Lines 153-164: Promise.all resolves with the entries in argument order;
\* their patterns are pushed after the repository's.
MergeCustomIgnores ==
  /\ pc = "readIgnore"
  /\ \A i \in DOMAIN reads : reads[i].done
  /\ customIgnores' = [i \in DOMAIN reads |->
                         [ig |-> reads[i].ig, patterns |-> reads[i].patterns]]
  /\ gitignorePatterns' = gitignorePatterns \o flattenPatterns(customIgnores')
  /\ pc' = "glob"
  /\ UNCHANGED <<fsVars, outFile, outContent, exitCode, gitignore, includeFiles,
                 reads, allFiles, ledgerVars, stdout, stderr>>

\* Lines 168-177: the candidates, and the advisory when there are none.
Glob ==
  /\ pc = "glob"
  /\ allFiles' \in fg(argv.positionals)
  /\ stderr' = IF Len(allFiles') = 0 /\ Len(argv.positionals) > 0
                 THEN stderr \cup {Msg("No files matched", "")}
                 ELSE stderr
  /\ pc' = "loop"
  /\ UNCHANGED <<fsVars, outFile, outContent, exitCode, gitignore,
                 gitignorePatterns, includeFiles, reads, customIgnores,
                 ledgerVars, stdout>>

\* ------------------------------------------------------------------------
\* The selection loop: lines 180-211, with processPath (107-137)
\* ------------------------------------------------------------------------

\* Line 184
isGitIgnored(relPath) ==
  IF gitignore.null THEN FALSE ELSE ignores(gitignore.rules, relPath)

\* Line 187
isCustomIgnored(relPath) ==
  \E i \in DOMAIN customIgnores : ignores(customIgnores[i].ig, relPath)

RECURSIVE flattenRules(_)
\* The rules of the entries, entry after entry.
flattenRules(entries) ==
  IF entries = <<>> THEN <<>>
  ELSE Head(entries).ig \o flattenRules(Tail(entries))

\* Variant of isIgnored: the rules of all sources in one matcher, so that
\* a later source's negation overrides an earlier source.
isIgnored_merged(relPath) ==
  ignores((IF gitignore.null THEN <<>> ELSE gitignore.rules) \o flattenRules(customIgnores),
          relPath)

\* Line 189
isIgnored(relPath) == isGitIgnored(relPath) \/ isCustomIgnored(relPath)

\* Variant of isForceIncluded: the override set is never consulted.
isForceIncluded_never(absolutePath) == absolutePath \in {}

\* Line 190
isForceIncluded(absolutePath) == absolutePath \in includeFiles

RECURSIVE firstMatch(_, _)
\* Lines 196-201: the first pattern whose own one-pattern matcher ignores
\* the path, as <<pattern>>; <<>> when there is none.
firstMatch(patterns, relPath) ==
  IF patterns = <<>> THEN <<>>
  ELSE IF ignores(ignoreAdd(<<Head(patterns)>>), relPath)
         THEN <<Head(patterns)>>
         ELSE firstMatch(Tail(patterns), relPath)

\* Line 198: skippedPatterns.set(pattern, (skippedPatterns.get(pattern) || 0) + 1)
increment(map, pattern) ==
  IF pattern \in DOMAIN map
    THEN [map EXCEPT ![pattern] = @ + 1]
    ELSE (pattern :> 1) @@ map

RECURSIVE creditAll(_, _, _)
\* Credits every pattern that matches, in list order.
creditAll(map, patterns, relPath) ==
  IF patterns = <<>> THEN map
  ELSE creditAll(IF ignores(ignoreAdd(<<Head(patterns)>>), relPath)
                   THEN increment(map, Head(patterns)) ELSE map,
                 Tail(patterns), relPath)

\* Variant of creditPattern: the loop has no break.
creditPattern_noBreak(map, relPath) == creditAll(map, gitignorePatterns, relPath)

\* Lines 196-201 on the ledger.
creditPattern(map, relPath) ==
  LET m == firstMatch(gitignorePatterns, relPath)
  IN  IF m = <<>> THEN map ELSE increment(map, m[1])

\* Variant of current: the loop walks the candidates from the last one.
current_reversed == allFiles[Len(allFiles) - idx]

\* The candidate the loop is at.
current == allFiles[idx + 1]

\* Lines 192-203: an ignored candidate that is not forced in is skipped
\* and credited; processPath is not called.
LoopSkip(k) ==
  /\ pc = "loop"
  /\ idx < Len(allFiles)
  /\ LET relPath == relative(current)
     IN  /\ isIgnored(relPath) /\ ~isForceIncluded(current)
         /\ skippedFiles' = Append(skippedFiles, relPath)
         /\ skippedPatterns' = creditPattern(skippedPatterns, relPath)
         /\ fileKind' = (relPath :> k) @@ fileKind
  /\ idx' = idx + 1
  /\ UNCHANGED <<fsVars, outFile, outContent, pc, exitCode, gitignore,
                 gitignorePatterns, includeFiles, reads, customIgnores, allFiles,
                 forceIncludedFiles, skippedDirectories, skippedBinaryFiles,
                 result, stdout, stderr>>

\* processPath (107-137) on a path that is k on disk.
processPath(path, k) ==
  LET relativePath == relative(path)
  IN  /\ skippedDirectories' =
           IF k = "dir" THEN Append(skippedDirectories, path) ELSE skippedDirectories
      /\ skippedBinaryFiles' =
           IF k = "binary" THEN Append(skippedBinaryFiles, path) ELSE skippedBinaryFiles
      /\ result' = IF k = "text" THEN Append(result, relativePath) ELSE result
      /\ stderr' = IF k = "error"
                     THEN stderr \cup {Msg("Error reading", relativePath)}
                     ELSE stderr

\* Variant of LoopProcess: processPath has no try/catch, a failing stat,
\* sniff or read rejects the top-level await and ends the process.
LoopProcess_abort(k) ==
  /\ pc = "loop"
  /\ idx < Len(allFiles)
  /\ LET relPath == relative(current)
     IN  /\ ~(isIgnored(relPath) /\ ~isForceIncluded(current))
         /\ forceIncludedFiles' =
              IF isIgnored(relPath) /\ isForceIncluded(current)
                THEN Append(forceIncludedFiles, relPath)
                ELSE forceIncludedFiles
         /\ fileKind' = (relPath :> k) @@ fileKind
  /\ IF k = "error"
       THEN /\ pc' = "exited" /\ exitCode' = 1 /\ idx' = idx
            /\ UNCHANGED <<skippedDirectories, skippedBinaryFiles, result, stderr>>
       ELSE /\ processPath(current, k)
            /\ idx' = idx + 1
            /\ UNCHANGED <<pc, exitCode>>
  /\ UNCHANGED <<fsVars, outFile, outContent, gitignore,
                 gitignorePatterns, includeFiles, reads, customIgnores, allFiles,
                 skippedFiles, skippedPatterns, stdout>>

\* Lines 205-210: every other candidate goes to processPath, after being
\* listed as force-included when it is ignored.
LoopProcess(k) ==
  /\ pc = "loop"
  /\ idx < Len(allFiles)
  /\ LET relPath == relative(current)
     IN  /\ ~(isIgnored(relPath) /\ ~isForceIncluded(current))
         /\ forceIncludedFiles' =
              IF isIgnored(relPath) /\ isForceIncluded(current)
                THEN Append(forceIncludedFiles, relPath)
                ELSE forceIncludedFiles
         /\ fileKind' = (relPath :> k) @@ fileKind
  /\ processPath(current, k)
  /\ idx' = idx + 1
  /\ UNCHANGED <<fsVars, outFile, outContent, pc, exitCode, gitignore,
                 gitignorePatterns, includeFiles, reads, customIgnores, allFiles,
                 skippedFiles, skippedPatterns, stdout>>

\* ------------------------------------------------------------------------
\* Warnings and output: lines 213-255
\* ------------------------------------------------------------------------

\* Lines 213-237: the end-of-run warnings.
warnings ==
  (IF Len(skippedDirectories) > 0 /\ ~argv.quiet
     THEN {Msg("directories skipped", "")} ELSE {})
  \cup (IF Len(skippedBinaryFiles) > 0 /\ ~argv.quiet
          THEN {Msg("binary files skipped", "")} ELSE {})
  \cup (IF Len(forceIncludedFiles) > 0 /\ ~argv.quiet
          THEN {Msg("gitignored files included", "")} ELSE {})
  \cup (IF Len(skippedFiles) > 0 /\ ~argv.quiet
          THEN {Msg("gitignored files skipped", "")} ELSE {})

\* Lines 213-238 and 253-255: no output path, the result goes to stdout.
FinishStdout ==
  /\ pc = "loop"
  /\ idx = Len(allFiles)
  /\ ~argv.output
  /\ stderr' = stderr \cup warnings
  /\ stdout' = stdout \cup {"result"}
  /\ exitCode' = 0
  /\ pc' = "exited"
  /\ UNCHANGED <<fsVars, outFile, outContent, gitignore, gitignorePatterns,
                 includeFiles, reads, customIgnores, allFiles, ledgerVars>>

\* Lines 213-243: an output path is given, its existence is probed.
CheckOutput ==
  /\ pc = "loop"
  /\ idx = Len(allFiles)
  /\ argv.output
  /\ stderr' = stderr \cup warnings
  /\ pc' = "access"
  /\ UNCHANGED <<fsVars, outFile, outContent, exitCode, gitignore,
                 gitignorePatterns, includeFiles, reads, customIgnores, allFiles,
                 ledgerVars, stdout>>

\* Variant of OutputExists: the force flag is not looked at and the file
\* is written.
OutputExists_overwrite ==
  /\ pc = "access"
  /\ outFile # "absent"
  /\ ~argv.force
  /\ outFile' = "written"
  /\ outContent' = result
  /\ stdout' = stdout \cup {"Context written"}
  /\ exitCode' = 0
  /\ pc' = "exited"
  /\ UNCHANGED <<fsVars, gitignore, gitignorePatterns, includeFiles, reads,
                 customIgnores, allFiles, ledgerVars, stderr>>

\* Lines 243-247: the file exists and --force is not set.
OutputExists ==
  /\ pc = "access"
  /\ outFile # "absent"
  /\ ~argv.force
  /\ stderr' = stderr \cup {Msg("Output file already exists", "")}
  /\ exitCode' = 1
  /\ pc' = "exited"
  /\ UNCHANGED <<fsVars, outFile, outContent, gitignore, gitignorePatterns,
                 includeFiles, reads, customIgnores, allFiles, ledgerVars, stdout>>

\* Lines 243-252: the file does not exist, or --force is set.
WriteOutput ==
  /\ pc = "access"
  /\ outFile = "absent" \/ argv.force
  /\ outFile' = "written"
  /\ outContent' = result
  /\ stdout' = stdout \cup {"Context written"}
  /\ exitCode' = 0
  /\ pc' = "exited"
  /\ UNCHANGED <<fsVars, gitignore, gitignorePatterns, includeFiles, reads,
                 customIgnores, allFiles, ledgerVars, stderr>>

\* ------------------------------------------------------------------------
\* Specifications
\* ------------------------------------------------------------------------

Next ==
  \/ ShowHelp
  \/ ReadGitignore
  \/ ExpandInclude
  \/ \E i \in DOMAIN reads : ReadIgnoreFileOk(i)
  \/ \E i \in DOMAIN reads : ReadIgnoreFileFail(i)
  \/ MergeCustomIgnores
  \/ Glob
  \/ \E k \in Kinds : LoopSkip(k)
  \/ \E k \in Kinds : LoopProcess(k)
  \/ FinishStdout
  \/ CheckOutput
  \/ OutputExists
  \/ WriteOutput

Init == InitFrom(Argvs, GitignoreFiles, IgnoreFiles, BOOLEAN)

Spec == Init /\ [][Next]_vars

\* ------------------------------------------------------------------------
\* Vocabulary of the properties
\* ------------------------------------------------------------------------

\* The run went past the help screen.
Ran == ~(argv.help \/ argv.positionals = <<>>)

\* Every custom ignore file named on the command line can be read.
IgnoreFilesReadable ==
  \A i \in DOMAIN argv.ignoreFile : fsIgnore[argv.ignoreFile[i]].ok

\* The selection loop has run to its end.
LoopFinished == Ran /\ pc \in {"access", "exited"} /\ IgnoreFilesReadable

\* The relative paths of the candidates the loop has finished.
Processed == {relative(allFiles[i]) : i \in 1..idx}

relNames(paths) == {relative(paths[i]) : i \in DOMAIN paths}

\* The contents of the ignore sources the run loads, as a set.
LoadedSources ==
  (IF ~argv.noGitignore /\ fsGitignore.ok THEN {fsGitignore.lines} ELSE {})
  \cup {fsIgnore[argv.ignoreFile[i]].lines : i \in DOMAIN argv.ignoreFile}

\* Some loaded source, compiled on its own, ignores the path.
IgnoredBySomeSource(relPath) ==
  \E src \in LoadedSources : ignores(ignoreAdd(src), relPath)

\* The path is in the Include-Override Set.
InIncludeSet(relPath) == relPath \in matchedFiles(argv.include)

\* The categories a path is recorded in.
Categories(relPath) ==
  (IF relPath \in Range(result) /\ relPath \notin Range(forceIncludedFiles)
     THEN {"included"} ELSE {})
  \cup (IF relPath \in Range(forceIncludedFiles) THEN {"force-included"} ELSE {})
  \cup (IF relPath \in Range(skippedFiles) THEN {"skipped-ignored"} ELSE {})
  \cup (IF relPath \in relNames(skippedBinaryFiles) THEN {"skipped-binary"} ELSE {})
  \cup (IF relPath \in relNames(skippedDirectories) THEN {"skipped-directory"} ELSE {})

RECURSIVE SumOver(_, _)
\* The sum of the counts of a ledger over a set of its keys.
SumOver(map, keys) ==
  IF keys = {} THEN 0
  ELSE LET p == CHOOSE q \in keys : TRUE
       IN  map[p] + SumOver(map, keys \ {p})

LedgerSum == SumOver(skippedPatterns, DOMAIN skippedPatterns)

\* No pattern of the flattened list, compiled alone, ignores the path.
Unattributable(relPath) ==
  \A i \in DOMAIN gitignorePatterns :
    ~ignores(ignoreAdd(<<gitignorePatterns[i]>>), relPath)

\* ------------------------------------------------------------------------
\* C1
\* ------------------------------------------------------------------------

\* C1: after a complete run every candidate has exactly one outcome: the
\* rendered files that were not ignored plus the entries of
\* forceIncludedFiles, skippedFiles, skippedBinaryFiles and
\* skippedDirectories number as many as the candidates, and no candidate is
\* recorded in two categories.
C1_OneOutcomePerCandidate ==
  LoopFinished =>
    /\ Cardinality({i \in DOMAIN result : result[i] \notin Range(forceIncludedFiles)})
         + Len(forceIncludedFiles) + Len(skippedFiles)
         + Len(skippedBinaryFiles) + Len(skippedDirectories) = Len(allFiles)
    /\ \A i \in DOMAIN allFiles : Cardinality(Categories(relative(allFiles[i]))) = 1

\* ------------------------------------------------------------------------
\* C2
\* ------------------------------------------------------------------------

\* C2 as stated: a candidate of the Include-Override Set is never in
\* skippedFiles; when an ignore rule matches it its outcome is
\* force-included, otherwise plain included.
C2_IncludeOutcomeAsStated ==
  \A n \in Processed :
    InIncludeSet(n) =>
      /\ n \notin Range(skippedFiles)
      /\ Categories(n) =
           IF IgnoredBySomeSource(n) THEN {"force-included"} ELSE {"included"}

\* C2 amended: a step of the loop on a candidate of the Include-Override
\* Set never appends to skippedFiles and never changes skippedPatterns; it
\* lists the candidate in forceIncludedFiles exactly when some ignore source
\* ignores it, and in both cases hands it to processPath, which renders it
\* exactly when it is a readable text file.
C2_IncludeNeverSkipped ==
  [][ (pc = "loop" /\ idx < Len(allFiles) /\ InIncludeSet(relative(current))) =>
        LET n == relative(current)
        IN  /\ skippedFiles' = skippedFiles
            /\ skippedPatterns' = skippedPatterns
            /\ forceIncludedFiles' =
                 IF IgnoredBySomeSource(n)
                   THEN Append(forceIncludedFiles, n) ELSE forceIncludedFiles
            /\ result' = IF fileKind'[n] = "text" THEN Append(result, n) ELSE result
    ]_vars

\* C2 witness: an ignored text file of the Include-Override Set was
\* rendered and listed as force-included, next to a skipped one.
C2_Witness ==
  /\ pc = "exited"
  /\ \E n \in Processed :
       /\ InIncludeSet(n) /\ IgnoredBySomeSource(n)
       /\ n \in Range(forceIncludedFiles) /\ n \in Range(result)
  /\ \E n \in Processed : InIncludeSet(n) /\ ~IgnoredBySomeSource(n)
                           /\ n \in Range(result)

\* ------------------------------------------------------------------------
\* C3
\* ------------------------------------------------------------------------

\* C3: the directory check and the binary detection come before the ignore
\* and override checks: a finished candidate that is a binary file is
\* skipped-binary, one that is a directory is skipped-directory, and neither
\* is recorded as skipped-ignored or force-included.
C3_BinaryAndDirectoryFirst ==
  \A n \in Processed :
    /\ fileKind[n] = "binary" => Categories(n) = {"skipped-binary"}
    /\ fileKind[n] = "dir" => Categories(n) = {"skipped-directory"}

\* ------------------------------------------------------------------------
\* C4
\* ------------------------------------------------------------------------

\* C4: the counts of skippedPatterns sum to the number of skipped files
\* minus the skipped files that no single pattern re-matches; so the sum
\* never exceeds skippedFiles.length and equals it when every skipped file
\* is attributable.
C4_LedgerSum ==
  /\ LedgerSum + Cardinality({i \in DOMAIN skippedFiles : Unattributable(skippedFiles[i])})
       = Len(skippedFiles)
  /\ LedgerSum <= Len(skippedFiles)

\* C4 witness: a finished run skipped two files, one credited to a pattern
\* and one that no single pattern re-matches.
C4_Witness ==
  /\ pc = "exited"
  /\ Len(skippedFiles) = 2
  /\ LedgerSum = 1
  /\ \E i \in DOMAIN skippedFiles : Unattributable(skippedFiles[i])

\* ------------------------------------------------------------------------
\* C5
\* ------------------------------------------------------------------------

\* The glob expansion has returned.
Expanded == pc \in {"loop", "access"} \/ LoopFinished

\* The first positional argument that matches a file.
firstArg(name) ==
  CHOOSE i \in DOMAIN argv.positionals :
    /\ GlobMatch(argv.positionals[i], name)
    /\ \A j \in 1..(i - 1) : ~GlobMatch(argv.positionals[j], name)

relSeq(paths) == [i \in DOMAIN paths |-> relative(paths[i])]

\* Each matching file is a candidate exactly once, the loop has finished
\* exactly the first idx candidates, and the rendered blocks stand in
\* candidate order.
OnceAndInCandidateOrder ==
  /\ \A i, j \in DOMAIN allFiles : allFiles[i] = allFiles[j] => i = j
  /\ relNames(allFiles) = matchedFiles(argv.positionals)
  /\ DOMAIN fileKind = Processed
  /\ result = SelectSeq(relSeq(allFiles), LAMBDA n : n \in Range(result))

FatalIgnoreMessages ==
  {Msg("Error reading ignore file", argv.ignoreFile[i]) : i \in DOMAIN argv.ignoreFile}

\* C6: a missing .gitignore gives an empty matcher and no pattern, without
\* a message, and the run goes on; an unreadable custom ignore file ends the
\* run with exit code 1 before a candidate is expanded or processed and
\* before anything reaches stdout or the output file.
C6_IgnoreFileLoading ==
  /\ (Ran /\ pc # "start" /\ ~argv.noGitignore /\ ~fsGitignore.ok) =>
       /\ gitignore = [null |-> FALSE, rules |-> <<>>]
       /\ pc \in {"include", "readIgnore"} => gitignorePatterns = <<>>
       /\ pc = "include" => (stderr = {} /\ exitCode = 0)
       /\ IgnoreFilesReadable => stderr \cap FatalIgnoreMessages = {}
  /\ (Ran /\ ~IgnoreFilesReadable) =>
       /\ pc \in {"start", "include", "readIgnore", "exited"}
       /\ allFiles = <<>> /\ idx = 0 /\ result = <<>>
       /\ stdout = {}
       /\ outFile = (IF fsOutput THEN "old" ELSE "absent")
       /\ pc = "exited" =>
            (exitCode = 1 /\ stderr \cap FatalIgnoreMessages # {})

\* C6 witness: with .gitignore missing, one custom ignore file was read and
\* the other could not be: the run has ended with code 1.
C6_Witness ==
  /\ pc = "exited" /\ exitCode = 1
  /\ ~argv.noGitignore /\ ~fsGitignore.ok
  /\ gitignore = [null |-> FALSE, rules |-> <<>>]
  /\ \E i \in DOMAIN reads : reads[i].done /\ reads[i].patterns # <<>>
  /\ \E i \in DOMAIN reads : ~reads[i].done

\* ------------------------------------------------------------------------
\* C7
\* ------------------------------------------------------------------------

\* The run gets as far as the output step.
ReachesOutput == Ran /\ IgnoreFilesReadable

\* C7 as stated: with an output path whose file exists and without force,
\* the run ends with a non-zero exit code, the file unmodified and nothing
\* on stdout; with force, or without the file, the result is written to the
\* output path.
C7_OutputAsStated ==
  pc = "exited" /\ argv.output =>
    IF fsOutput /\ ~argv.force
      THEN exitCode # 0 /\ outFile = "old" /\ stdout = {}
      ELSE outFile = "written" /\ outContent = result

\* C7 amended: with an output path whose file exists and without force the
\* file is never modified and the result never reaches stdout; a run that
\* gets to the output step (no help screen, every custom ignore file
\* readable) then ends with exit code 1 and nothing on stdout, and with
\* force, or without the file, ends with the result written to the output
\* path.
C7_OutputGuard ==
  argv.output =>
    /\ (fsOutput /\ ~argv.force) =>
         /\ outFile = "old" /\ outContent = <<>>
         /\ "result" \notin stdout /\ "Context written" \notin stdout
         /\ (pc = "exited" /\ ReachesOutput) =>
              /\ exitCode = 1 /\ stdout = {}
              /\ Msg("Output file already exists", "") \in stderr
    /\ (pc = "exited" /\ ReachesOutput /\ (argv.force \/ ~fsOutput)) =>
         outFile = "written" /\ outContent = result /\ exitCode = 0

\* C7 witness: a run that rendered a file ended on the existing output
\* file, which still has its old content.
C7_Witness ==
  /\ pc = "exited" /\ exitCode = 1
  /\ argv.output /\ fsOutput /\ ~argv.force
  /\ result # <<>>
  /\ outFile = "old"
  /\ Msg("Output file already exists", "") \in stderr

\* ------------------------------------------------------------------------
\* C8
\* ------------------------------------------------------------------------

FatalMessages ==
  FatalIgnoreMessages \cup {Msg("Output file already exists", "")}

\* C8: with --quiet nothing but the two fatal errors is emitted: no
\* advisory, no warning, no per-file read error, no success message.
C8_QuietSuppressesAll ==
  argv.quiet => (stderr \subseteq FatalMessages /\ "Context written" \notin stdout)

\* ------------------------------------------------------------------------
\* C9
\* ------------------------------------------------------------------------

C10_IgnoredIffSomeSource ==
  /\ pc = "loop" => \A n \in FileNames : isIgnored(n) <=> IgnoredBySomeSource(n)
  /\ Expanded =>
       \A n \in Processed :
         (n \in Range(skippedFiles) \cup Range(forceIncludedFiles))
           <=> IgnoredBySomeSource(n)

\* C10 witness: b.log was skipped because the repository file ignores it,
\* although a custom ignore file, loaded later, re-includes it.
C10_Witness ==
  /\ pc = "exited"
  /\ "b.log" \in Range(skippedFiles)
  /\ ~argv.noGitignore /\ ignores(ignoreAdd(fsGitignore.lines), "b.log")
  /\ \E i \in DOMAIN argv.ignoreFile :
       LET lines == fsIgnore[argv.ignoreFile[i]].lines
       IN  "!b.log" \in Range(lines) /\ ~ignores(ignoreAdd(lines), "b.log")

\* ------------------------------------------------------------------------
\* C11
\* ------------------------------------------------------------------------

RECURSIVE PatternsOfFiles(_)
\* The patterns of a list of custom ignore files, file after file.
PatternsOfFiles(names) ==
  IF names = <<>> THEN <<>>
  ELSE parsePatterns(fsIgnore[Head(names)].lines) \o PatternsOfFiles(Tail(names))

\* The patterns in load order: the repository file's in file order, then
\* each custom ignore file's in the order the files are named.
LoadOrderPatterns ==
  (IF ~argv.noGitignore /\ fsGitignore.ok
     THEN parsePatterns(fsGitignore.lines) ELSE <<>>)
  \o PatternsOfFiles(argv.ignoreFile)

\* The positions of LoadOrderPatterns whose one-pattern matcher ignores
\* the path.
MatchingPositions(relPath) ==
  {i \in DOMAIN LoadOrderPatterns :
     ignores(ignoreAdd(<<LoadOrderPatterns[i]>>), relPath)}

\* The ledger after crediting the path to the first matching pattern in
\* load order, if there is one.
CreditedInLoadOrder(map, relPath) ==
  IF MatchingPositions(relPath) = {} THEN map
  ELSE LET i == CHOOSE j \in MatchingPositions(relPath) :
                  \A k \in MatchingPositions(relPath) : j <= k
           p == LoadOrderPatterns[i]
       IN  [q \in DOMAIN map \cup {p} |->
              (IF q \in DOMAIN map THEN map[q] ELSE 0) + (IF q = p THEN 1 ELSE 0)]

\* C11: a skipped path is credited to the first pattern in load order
\* (repository patterns, then the custom files' patterns in command-line
\* order) whose one-pattern matcher matches it, in whatever order the
\* concurrent reads of the custom ignore files complete.
C11_FirstInLoadOrder ==
  /\ [](pc \in {"glob", "loop", "access"} => gitignorePatterns = LoadOrderPatterns)
  /\ [][ (pc = "loop" /\ idx < Len(allFiles)
            /\ skippedFiles' = Append(skippedFiles, relative(current))) =>
           skippedPatterns' = CreditedInLoadOrder(skippedPatterns, relative(current))
     ]_vars

\* C11 witness: the second custom ignore file was read before the first,
\* both hold a pattern that matches b.log, and b.log was credited to the
\* pattern of the file named first.
C11_Witness ==
  /\ pc = "exited"
  /\ Len(reads) = 2 /\ reads[2].at < reads[1].at
  /\ \A i \in DOMAIN reads :
       \E j \in DOMAIN reads[i].patterns :
         ignores(ignoreAdd(<<reads[i].patterns[j]>>), "b.log")
  /\ reads[1].patterns # reads[2].patterns
  /\ MatchingPositions("b.log") # {}
  /\ "b.log" \in Range(skippedFiles)
  /\ DOMAIN skippedPatterns = {reads[1].patterns[1]}

\* ------------------------------------------------------------------------
\* C12
\* ------------------------------------------------------------------------

\* The pattern's count grows in this step.
Credited(p) ==
  /\ p \in DOMAIN skippedPatterns'
  /\ skippedPatterns'[p] > (IF p \in DOMAIN skippedPatterns THEN skippedPatterns[p] ELSE 0)

\* C12: a skipped path is only ever credited to a pattern of a source whose
\* own matcher, compiled from the whole source, ignores the path.
C12_CreditedSourceIgnores ==
  [][ (pc = "loop" /\ idx < Len(allFiles)) =>
        \A p \in DOMAIN skippedPatterns' :
          Credited(p) =>
            \E src \in LoadedSources :
              /\ p \in Range(parsePatterns(src))
              /\ ignores(ignoreAdd(src), relative(current))
    ]_vars

====
